---- MODULE Spec2Model ----
(***************************************************************************)
(* VaDER hyperparameter optimisation: the Bayesian optimizer's sweep       *)
(* (vader_bayesian_optimizer.py), the optimization job it launches         *)
(* (abstract_optimization_job.py, full_optimization_job.py).               *)
(*                                                                         *)
(* Python's None is the empty tuple, a present value x is <<x>>, so that   *)
(* the two always compare.  Strings that the code builds by formatting are *)
(* sequences of characters.  Real-valued metrics are integers; a mean is   *)
(* the pair <<sum, count>>.                                                *)
(***************************************************************************)
EXTENDS Integers, Sequences, FiniteSets, TLC

VARIABLES
    opt,         \* the VADERBayesianOptimizer object: seed, n_repeats, n_trials, n_proc
    input,       \* the (input_data, input_weights) passed to run(): sample counts
    phase,       \* "idle" | "constructed" | "running" | "done" | "crashed"
    runs,        \* number of optimizer invocations so far on the output folder
    task,        \* pool.map: position in k_list -> state of run_cv_full_job(k)
    study,       \* position in k_list -> the optuna study's trials, by trial number
    trialsDir,   \* csv_trials: file name -> rows
    repeatsDir,  \* csv_repeats: file name -> rows
    failedDir,   \* failed_jobs: set of log file names
    bestScores,  \* the best-scores csv of this output folder: None or its rows
    reported,    \* the failed-job count logged by run(): None or the number
    faults,      \* how many jobs failed inside the Model (not on the data) so far
    writers,     \* per file name, the trials that wrote it during the current sweep
    frame,       \* the frame __gen_repeats_files_from_trials_files last concatenated
    job,         \* one FullOptimizationJob stepping through run()
    script       \* one execution of tools/run_vader.py: arguments, position, report file

vars == <<opt, input, phase, runs, task, study, trialsDir, repeatsDir,
          failedDir, bestScores, reported, faults, writers, frame, job, script>>

sweepVars == <<opt, input, phase, runs, task, study, trialsDir, repeatsDir,
               failedDir, bestScores, reported, faults, writers, frame>>

----------------------------------------------------------------------------
(* Bounds of the model *)

MaxRuns == 2
MaxTrials == 2
MaxRepeats == 2
SampleSize == 1
MaxSamples == 3
MaxConsensus == 2
MaxSplits == 2
MaxFiles == 2
SeedTrials == 12
SeedRepeats == 11
MaxScriptK == 3

----------------------------------------------------------------------------
(* Values *)

None == <<>>
Some(x) == <<x>>
Get(o) == o[1]

Max(a, b) == IF a >= b THEN a ELSE b

RECURSIVE SumSeq(_)
SumSeq(s) == IF s = <<>> THEN 0 ELSE Head(s) + SumSeq(Tail(s))

RECURSIVE Flatten(_)
Flatten(ss) == IF ss = <<>> THEN <<>> ELSE Head(ss) \o Flatten(Tail(ss))

(* str(n) of a Python int: its decimal digits, a leading "-" when negative *)
Digit(d) == <<"0", "1", "2", "3", "4", "5", "6", "7", "8", "9">>[d + 1]

RECURSIVE Digits(_)
Digits(n) == IF n < 10 THEN <<Digit(n)>> ELSE Digits(n \div 10) \o <<Digit(n % 10)>>

Str(n) == IF n < 0 THEN <<"-">> \o Digits(-n) ELSE Digits(n)

(* int(s) of a string of decimal digits with an optional leading "-" *)
DigitVal(c) == CHOOSE d \in 0..9 : Digit(d) = c

RECURSIVE NatOf(_)
NatOf(s) ==
    IF s = <<>> THEN 0
    ELSE 10 * NatOf(SubSeq(s, 1, Len(s) - 1)) + DigitVal(s[Len(s)])

IntOf(s) == IF Head(s) = "-" THEN -NatOf(Tail(s)) ELSE NatOf(s)

(* Python truthiness of an Optional[int]: None and 0 are false *)
Truthy(o) == o # None /\ Get(o) # 0

----------------------------------------------------------------------------
(* VADERBayesianOptimizer.__init__ *)

KList == <<2, 3, 4, 5, 6>>
Pos == 1..Len(KList)

DefaultSplits == 2

ParamCols == {"k", "n_hidden", "learning_rate", "batch_size", "alpha"}

MetricCols ==
    {"train_reconstruction_loss", "train_latent_loss", "train_total_loss",
     "test_reconstruction_loss", "test_latent_loss", "test_total_loss",
     "effective_k", "rand_index", "rand_index_null", "adj_rand_index",
     "adj_rand_index_null", "prediction_strength", "prediction_strength_null"}

ScoreCol == "prediction_strength_diff"

(* params_dict of objective(): the suggested values are opaque *)
ParamsDict(k) ==
    [c \in ParamCols |->
        CASE c = "k" -> Some(k)
          [] c = "alpha" -> Some(1)
          [] OTHER -> Some(0)]

(* the row job.run() returns: params_dict followed by the fold means *)
JobResultRow(k, ps, psn) ==
    [c \in ParamCols \cup MetricCols |->
        IF c \in ParamCols THEN ParamsDict(k)[c]
        ELSE CASE c = "prediction_strength" -> Some(ps)
               [] c = "prediction_strength_null" -> Some(psn)
               [] OTHER -> Some(0)]

FailedResultWithMetrics(k) == JobResultRow(k, 0, 0)

(* the row run_cv_single_job() returns for a job that raised: the config only *)
FailedResult(k) == ParamsDict(k)

TrialIdWithoutK(k, number) == <<"trial">> \o Str(number)

(* f"k{k}_trial{trial.number}" and the per-trial file it names *)
TrialId(k, number) == <<"k">> \o Str(k) \o <<"_trial">> \o Str(number)

TrialFile(k, number) == TrialId(k, number) \o <<".csv">>

RepeatFile(i) == <<"repeat_">> \o Str(i) \o <<".csv">>

(* uuid.uuid4(): a value no other job has; the job's place in the history *)
CvId(run, k, number, i) == <<run, k, number, i>>

LogFile(cv_id) == <<cv_id, ".log">>

(* int(str(self.seed) + str(k) + str(trial.number) + str(i)) if self.seed else None *)
JobSeed(seed, k, number, i) ==
    IF Truthy(seed)
    THEN Some(IntOf(Str(Get(seed)) \o Str(k) \o Str(number) \o Str(i)))
    ELSE None

----------------------------------------------------------------------------
(* pandas: DataFrame(list of Series), to_csv, read_csv, concat, mean *)

Columns(rows) == UNION {DOMAIN rows[i] : i \in DOMAIN rows}

(* a frame of the rows: every row over the union of the columns, NaN where absent *)
DataFrame(rows) ==
    [i \in DOMAIN rows |->
        [c \in Columns(rows) |-> IF c \in DOMAIN rows[i] THEN rows[i][c] ELSE None]]

(* mean of a column, NaN cells skipped *)
ColumnMean(df, c) ==
    LET cells == [i \in DOMAIN df |-> df[i][c]]
        present == SelectSeq(cells, LAMBDA x : x # None)
    IN  <<SumSeq([i \in DOMAIN present |-> Get(present[i])]), Len(present)>>

(* a row with at least one metric cell filled *)
HasMetrics(row) == \E c \in MetricCols : c \in DOMAIN row /\ row[c] # None

(* results_df[...].mean() if the column is there, else None *)
Objective(results) ==
    LET df == DataFrame(results)
    IN  IF ScoreCol \in Columns(df) THEN Some(ColumnMean(df, ScoreCol)) ELSE None

----------------------------------------------------------------------------
(* AbstractOptimizationJob.run, seen from its caller: does it raise on the data *)

ArraySize(n) == n * SampleSize

(* KFold(n_splits) needs n_splits >= 2 and at least n_splits samples; then      *)
(* `if self.weights` raises on an array of more than one element, and           *)
(* self.weights[train_index], self.weights[val_index] on an index it lacks      *)
RunRaisesOnData(n, w, n_splits) ==
    \/ n_splits < 2
    \/ n < n_splits
    \/ w # None /\ ArraySize(Get(w)) > 1
    \/ w # None /\ Get(w) < n

----------------------------------------------------------------------------
(* multiprocessing.Pool.map over k_list *)

Chunksize(n_proc) ==
    LET q == Len(KList) \div (4 * n_proc)
        r == Len(KList) % (4 * n_proc)
    IN  IF r # 0 THEN q + 1 ELSE q

ChunkOf(p) == (p - 1) \div Chunksize(opt.n_proc)

Final == {"returned", "raised", "skipped"}

ChunkStarted(c) == \E p \in Pos : ChunkOf(p) = c /\ task[p] # "pending"

ChunkDone(c) == \A p \in Pos : ChunkOf(p) = c => task[p] \in Final

Busy == Cardinality({ChunkOf(p) : p \in {q \in Pos : ChunkStarted(ChunkOf(q)) /\ ~ChunkDone(ChunkOf(q))}})

Running(p) == {n \in DOMAIN study[p] : study[p][n].state = "running"}

(* study.best_value: the largest value of the completed trials *)
Completed(p) == {n \in DOMAIN study[p] : study[p][n].state = "complete"}

MeanLeq(a, b) == a[1] * b[2] <= b[1] * a[2]

BestValue(p) ==
    LET best == CHOOSE n \in Completed(p) :
                    \A m \in Completed(p) :
                        MeanLeq(Get(study[p][m].value), Get(study[p][n].value))
    IN  study[p][best].value

----------------------------------------------------------------------------
(* __gen_repeats_files_from_trials_files *)

(* list(range(start, stop, step)) *)
RECURSIVE PyRange(_, _, _)
PyRange(start, stop, step) ==
    IF start >= stop THEN <<>> ELSE <<start>> \o PyRange(start + step, stop, step)

(* df.iloc[ii]: positions are 0-based *)
ILoc(df, ii) == [j \in DOMAIN ii |-> df[ii[j] + 1]]

(* the orders in which os.scandir may list the files of a directory *)
ScanOrders(dir) ==
    LET names == DOMAIN dir
        N == Cardinality(names)
    IN  {s \in [1..N -> names] : \A a, b \in 1..N : a # b => s[a] # s[b]}

(* pd.concat of the files read in that order, ignore_index=True *)
ConcatTrials(dir, order) == DataFrame(Flatten([j \in DOMAIN order |-> dir[order[j]]]))

RepeatRowsFromNext(df, i, n_repeats) == ILoc(df, PyRange(i + 1, Len(df), n_repeats))

(* df.iloc[list(range(i, df.shape[0], self.n_repeats))] *)
RepeatRows(df, i, n_repeats) == ILoc(df, PyRange(i, Len(df), n_repeats))

(* the repeat files written, over what the repeats directory already holds *)
GenRepeatsFiles(df, n_repeats, old) ==
    LET written == {RepeatFile(i) : i \in 0..(n_repeats - 1)}
    IN  [f \in written \cup DOMAIN old |->
            IF f \in written
            THEN RepeatRows(df, CHOOSE i \in 0..(n_repeats - 1) : RepeatFile(i) = f, n_repeats)
            ELSE old[f]]

----------------------------------------------------------------------------
(* The sweep: VADERBayesianOptimizer(...) then run(input_data, input_weights) *)

NoFiles == [f \in {} |-> <<>>]

Construct(conf) ==
    /\ phase \in {"idle", "done", "crashed"}
    /\ runs < MaxRuns
    /\ opt' = conf
    /\ phase' = "constructed"
    /\ UNCHANGED <<input, runs, task, study, trialsDir, repeatsDir, failedDir,
                   bestScores, reported, faults, writers, frame, job, script>>

(* run() up to pool.map handing out the tasks *)
RunStart(inp) ==
    /\ phase = "constructed"
    /\ input' = inp
    /\ phase' = "running"
    /\ runs' = runs + 1
    /\ task' = [p \in Pos |-> "pending"]
    /\ study' = [p \in Pos |-> <<>>]
    /\ writers' = NoFiles
    /\ reported' = None
    /\ UNCHANGED <<opt, trialsDir, repeatsDir, failedDir, bestScores, faults, frame, job, script>>

(* a pool process takes run_cv_full_job(k): optuna.create_study *)
TaskStart(p) ==
    /\ phase = "running"
    /\ task[p] = "pending"
    /\ IF p > 1 /\ ChunkOf(p - 1) = ChunkOf(p)
       THEN task[p - 1] = "returned"
       ELSE /\ \A q \in Pos : q < p => task[q] # "pending" \/ ChunkStarted(ChunkOf(q))
            /\ Busy < opt.n_proc
    /\ task' = [task EXCEPT ![p] = "running"]
    /\ UNCHANGED <<opt, input, phase, runs, study, trialsDir, repeatsDir, failedDir,
                   bestScores, reported, faults, writers, frame, job, script>>

(* study.optimize starts a trial: at most n_jobs at a time, n_trials in all *)
TrialStart(p) ==
    /\ phase = "running"
    /\ task[p] = "running"
    /\ Len(study[p]) < opt.n_trials
    /\ Cardinality(Running(p)) < opt.n_proc
    /\ study' = [study EXCEPT ![p] = Append(@,
            [state |-> "running", i |-> 0, results |-> <<>>, jobs |-> <<>>, value |-> None])]
    /\ UNCHANGED <<opt, input, phase, runs, task, trialsDir, repeatsDir, failedDir,
                   bestScores, reported, faults, writers, frame, job, script>>

(* what the Model's fits and the metrics can come to for one job: it raises,  *)
(* or it gives a prediction strength and its permuted counterpart            *)
Outcomes(values) == [ok : BOOLEAN, ps : values, psn : values]

Raising == [ok |-> FALSE, ps |-> 0, psn |-> 0]

(* one pass of objective()'s loop: the seed, run_cv_single_job, append.        *)
(* `number` is trial.number, `o` what the job's fits and metrics come to, and  *)
(* `cap` how many jobs may fail inside the Model rather than on the data       *)
RunCvSingleJob(p, number, o, cap) ==
    LET k == KList[p]
        t == study[p][number + 1]
        seed == JobSeed(opt.seed, k, number, t.i)
        cv_id == CvId(runs, k, number, t.i)
        raised == RunRaisesOnData(input.n, input.w, DefaultSplits) \/ ~o.ok
        result == IF raised THEN FailedResult(k) ELSE JobResultRow(k, o.ps, o.psn)
    IN  /\ phase = "running"
        /\ task[p] = "running"
        /\ number + 1 \in DOMAIN study[p]
        /\ t.state = "running"
        /\ t.i < opt.n_repeats
        /\ (RunRaisesOnData(input.n, input.w, DefaultSplits) \/ ~o.ok) => o = Raising
        /\ (~o.ok /\ ~RunRaisesOnData(input.n, input.w, DefaultSplits)) => faults < cap
        /\ faults' = IF ~o.ok /\ ~RunRaisesOnData(input.n, input.w, DefaultSplits) THEN faults + 1 ELSE faults
        /\ failedDir' = IF raised THEN failedDir \cup {LogFile(cv_id)} ELSE failedDir
        /\ study' = [study EXCEPT ![p][number + 1] =
                [@ EXCEPT !.i = @ + 1,
                          !.results = Append(@, result),
                          !.jobs = Append(@, [cv_id |-> cv_id, seed |-> seed, raised |-> raised])]]
        /\ UNCHANGED <<opt, input, phase, runs, task, trialsDir, repeatsDir,
                       bestScores, reported, writers, frame, job, script>>

(* the end of objective(): to_csv of the trial's rows, the score; optuna then  *)
(* records the trial as failed when the score is None                          *)
TrialFinish(p, number) ==
    LET k == KList[p]
        t == study[p][number + 1]
        f == TrialFile(k, number)
        score == Objective(t.results)
    IN  /\ phase = "running"
        /\ task[p] = "running"
        /\ number + 1 \in DOMAIN study[p]
        /\ t.state = "running"
        /\ t.i = opt.n_repeats
        /\ trialsDir' = (f :> DataFrame(t.results)) @@ trialsDir
        /\ writers' = (f :> ((IF f \in DOMAIN writers THEN writers[f] ELSE {}) \cup {<<p, number>>})) @@ writers
        /\ study' = [study EXCEPT ![p][number + 1] =
                [@ EXCEPT !.state = IF score = None THEN "fail" ELSE "complete",
                          !.results = <<>>,
                          !.value = score]]
        /\ UNCHANGED <<opt, input, phase, runs, task, repeatsDir, failedDir,
                       bestScores, reported, faults, frame, job, script>>

(* study.optimize returns (all trials done, or the timeout passed with none in  *)
(* flight); study.best_params raises when no trial completed, and the pool      *)
(* process then drops the rest of its chunk                                     *)
TaskFinish(p) ==
    /\ phase = "running"
    /\ task[p] = "running"
    /\ Running(p) = {}
    /\ Len(study[p]) >= 1
    /\ task' = [q \in Pos |->
            IF q = p THEN (IF Completed(p) = {} THEN "raised" ELSE "returned")
            ELSE IF Completed(p) = {} /\ q > p /\ ChunkOf(q) = ChunkOf(p) THEN "skipped"
            ELSE task[q]]
    /\ UNCHANGED <<opt, input, phase, runs, study, trialsDir, repeatsDir, failedDir,
                   bestScores, reported, faults, writers, frame, job, script>>

(* pool.map is over: it re-raises a task's exception, else run() goes on to    *)
(* write the best scores, regroup the trial files and count the failure logs   *)
RunTail ==
    /\ phase = "running"
    /\ \A p \in Pos : task[p] \in Final
    /\ IF \E p \in Pos : task[p] # "returned"
       THEN /\ phase' = "crashed"
            /\ UNCHANGED <<bestScores, repeatsDir, reported, frame>>
       ELSE /\ bestScores' = Some([p \in Pos |-> [k |-> KList[p], best_value |-> BestValue(p)]])
            /\ \E order \in ScanOrders(trialsDir) :
                 /\ frame' = ConcatTrials(trialsDir, order)
                 /\ repeatsDir' = GenRepeatsFiles(frame', opt.n_repeats, repeatsDir)
            /\ reported' = IF Cardinality(failedDir) > 0 THEN Some(Cardinality(failedDir)) ELSE None
            /\ phase' = "done"
    /\ UNCHANGED <<opt, input, runs, task, study, trialsDir, failedDir, faults, writers, job, script>>

----------------------------------------------------------------------------
(* Specification of the sweep: optimizer invocations, one after the other, on  *)
(* one output folder, each with one pool process; jobs fail on the data only   *)

Seeds == {None, Some(0), Some(1)}

Confs(procs) ==
    [seed : Seeds, n_repeats : 1..MaxRepeats, n_trials : 1..MaxTrials, n_proc : procs]

Inputs == [n : 1..MaxSamples, w : {None} \cup {Some(m) : m \in 1..MaxSamples}]

(* one input of each kind: unmasked, masked, mask of another shape, too few samples *)
SweepInputs ==
    {[n |-> DefaultSplits, w |-> None], [n |-> DefaultSplits, w |-> Some(DefaultSplits)],
     [n |-> DefaultSplits, w |-> Some(DefaultSplits - 1)], [n |-> DefaultSplits - 1, w |-> None]}

NoJob == [pc |-> "none"]

NoScript == [pc |-> "none"]

Init ==
    /\ opt = [seed |-> None, n_repeats |-> 1, n_trials |-> 1, n_proc |-> 1]
    /\ input = [n |-> 1, w |-> None]
    /\ phase = "idle"
    /\ runs = 0
    /\ task = [p \in Pos |-> "pending"]
    /\ study = [p \in Pos |-> <<>>]
    /\ trialsDir = NoFiles
    /\ repeatsDir = NoFiles
    /\ failedDir = {}
    /\ bestScores = None
    /\ reported = None
    /\ faults = 0
    /\ writers = NoFiles
    /\ frame = <<>>
    /\ job = NoJob
    /\ script = NoScript

Next ==
    \/ \E conf \in Confs({1}) : Construct(conf)
    \/ \E inp \in SweepInputs : RunStart(inp)
    \/ \E p \in Pos : TaskStart(p)
    \/ \E p \in Pos : TrialStart(p)
    \/ \E p \in Pos, number \in 0..(MaxTrials - 1) :
         \E o \in Outcomes({0}) : RunCvSingleJob(p, number, o, 0)
    \/ \E p \in Pos, number \in 0..(MaxTrials - 1) : TrialFinish(p, number)
    \/ \E p \in Pos : TaskFinish(p)
    \/ RunTail

Spec == Init /\ [][Next]_vars

----------------------------------------------------------------------------
(* Claims on the sweep *)

IsPrefix(a, b) == Len(a) <= Len(b) /\ SubSeq(b, 1, Len(a)) = a

(* C2: per-trial files are append-only: a row once persisted to a per-trial    *)
(* file is still there, in its place, after every later write, over any        *)
(* sequence of trials and optimizer invocations on the output folder           *)
C2_TrialFilesAppendOnly ==
    [][\A f \in DOMAIN trialsDir :
          f \in DOMAIN trialsDir' /\ IsPrefix(trialsDir[f], trialsDir'[f])]_vars

(* C3: run() always completes and persists the best-scores table, one row per  *)
(* candidate K, whatever jobs failed and whatever objectives were undefined    *)
C3_RunAlwaysYieldsBestScores ==
    /\ phase # "crashed"
    /\ phase = "done" => bestScores # None /\ Len(Get(bestScores)) = Len(KList)

(* the Dataset and the Weight Mask differ in shape, or a split would be empty *)
DataError(inp) ==
    \/ inp.w # None /\ Get(inp.w) # inp.n
    \/ inp.n < DefaultSplits

(* C6: on a data error run() aborts before any Optimization Job is created:    *)
(* the invocation writes no per-trial file and no failure log                  *)
C6_DataErrorsAbortBeforeJobs ==
    (phase \in {"running", "done", "crashed"} /\ DataError(input)) =>
        /\ \A p \in Pos : \A n \in DOMAIN study[p] : study[p][n].i = 0
        /\ writers = NoFiles
        /\ \A log \in failedDir : log[1][1] # runs

----------------------------------------------------------------------------
(* Specification of one study: the first task of a sweep, run_cv_full_job on   *)
(* k_list[0], with every job free to fail                                      *)

AllJobs == MaxTrials * MaxRepeats

InitStudy ==
    /\ opt \in Confs({1})
    /\ input \in Inputs
    /\ phase = "running"
    /\ runs = 1
    /\ task = [p \in Pos |-> IF p = 1 THEN "running" ELSE "pending"]
    /\ study = [p \in Pos |-> <<>>]
    /\ trialsDir = NoFiles
    /\ repeatsDir = NoFiles
    /\ failedDir = {}
    /\ bestScores = None
    /\ reported = None
    /\ faults = 0
    /\ writers = NoFiles
    /\ frame = <<>>
    /\ job = NoJob
    /\ script = NoScript

NextStudy ==
    \/ TrialStart(1)
    \/ \E number \in 0..(MaxTrials - 1) :
         \E o \in Outcomes({0}) : RunCvSingleJob(1, number, o, AllJobs)
    \/ \E number \in 0..(MaxTrials - 1) : TrialFinish(1, number)
    \/ TaskFinish(1)

SpecStudy == InitStudy /\ [][NextStudy]_vars

Finished(p) == {n \in DOMAIN study[p] : study[p][n].state # "running"}

RaisedJobs(t) == {i \in DOMAIN t.jobs : t.jobs[i].raised}

RECURSIVE SumRaised(_, _)
SumRaised(trials, n) ==
    IF n = 0 THEN 0 ELSE Cardinality(RaisedJobs(trials[n])) + SumRaised(trials, n - 1)

(* C1: failure containment: whichever of a trial's n_repeats jobs raise, the   *)
(* trial is carried through, its file holds n_repeats rows (a row with metrics *)
(* per job that succeeded, the config alone per job that raised), and there is *)
(* one failure log, named by the job's id, per job that raised                 *)
C1_FailureContainment ==
    /\ \A n \in Finished(1) :
         LET t == study[1][n]
             f == TrialFile(KList[1], n - 1)
         IN  /\ f \in DOMAIN trialsDir
             /\ Len(trialsDir[f]) = opt.n_repeats
             /\ Len(t.jobs) = opt.n_repeats
             /\ \A i \in 1..opt.n_repeats :
                  /\ HasMetrics(trialsDir[f][i]) <=> ~t.jobs[i].raised
                  /\ \A c \in ParamCols : trialsDir[f][i][c] = ParamsDict(KList[1])[c]
                  /\ t.jobs[i].raised <=> LogFile(t.jobs[i].cv_id) \in failedDir
    /\ Cardinality(failedDir) = SumRaised(study[1], Len(study[1]))

C1_Witness ==
    \E n \in Finished(1) :
        /\ RaisedJobs(study[1][n]) # {}
        /\ RaisedJobs(study[1][n]) # DOMAIN study[1][n].jobs

(* C4: when all n_repeats jobs of a trial succeed, objective() returns a value *)
(* that is not None: the mean over the repeats of prediction_strength minus    *)
(* prediction_strength_null                                                    *)
C4_ObjectiveIsMeanDifferential ==
    \A n \in Finished(1) :
        LET t == study[1][n]
            rows == trialsDir[TrialFile(KList[1], n - 1)]
            diffs == [i \in DOMAIN rows |->
                        Get(rows[i]["prediction_strength"]) - Get(rows[i]["prediction_strength_null"])]
        IN  RaisedJobs(t) = {} =>
                /\ t.value # None
                /\ Get(t.value)[1] * Len(rows) = SumSeq(diffs) * Get(t.value)[2]

(* C8: with an integer base seed configured, the n_repeats jobs of a trial get *)
(* seeds that are not None and differ from one another                         *)
C8_RepeatSeedsDistinct ==
    opt.seed # None =>
        \A n \in DOMAIN study[1] :
            LET jobs == study[1][n].jobs
            IN  /\ \A i \in DOMAIN jobs : jobs[i].seed # None
                /\ \A i, j \in DOMAIN jobs : i # j => jobs[i].seed # jobs[j].seed

----------------------------------------------------------------------------
(* Specification of one sweep with several pool processes: n_proc processes    *)
(* over k_list, and in each up to n_proc trials of the study at a time         *)

ParProcs == {2}

InitPar ==
    /\ opt \in [seed : {None}, n_repeats : {1}, n_trials : {MaxTrials}, n_proc : ParProcs]
    /\ input = [n |-> DefaultSplits, w |-> None]
    /\ phase = "running"
    /\ runs = 1
    /\ task = [p \in Pos |-> "pending"]
    /\ study = [p \in Pos |-> <<>>]
    /\ trialsDir = NoFiles
    /\ repeatsDir = NoFiles
    /\ failedDir = {}
    /\ bestScores = None
    /\ reported = None
    /\ faults = 0
    /\ writers = NoFiles
    /\ frame = <<>>
    /\ job = NoJob
    /\ script = NoScript

NextPar ==
    \/ \E p \in Pos : TaskStart(p)
    \/ \E p \in Pos : TrialStart(p)
    \/ \E p \in Pos, number \in 0..(MaxTrials - 1) :
         \E o \in Outcomes({0}) : RunCvSingleJob(p, number, o, 0)
    \/ \E p \in Pos, number \in 0..(MaxTrials - 1) : TrialFinish(p, number)
    \/ \E p \in Pos : TaskFinish(p)
    \/ RunTail

SpecPar == InitPar /\ [][NextPar]_vars

Trials == {pn \in Pos \X (1..MaxTrials) : pn[2] \in DOMAIN study[pn[1]]}

(* C9: during a sweep no two workers write the same per-trial file: the files  *)
(* of two different trials, of one K or of two, differ, and each file written  *)
(* was written by one trial, under every interleaving of the workers           *)
C9_TrialFilesDisjoint ==
    /\ Cardinality({TrialFile(KList[a[1]], a[2] - 1) : a \in Trials}) = Cardinality(Trials)
    /\ \A f \in DOMAIN writers : Cardinality(writers[f]) = 1

C9_Witness ==
    \E p, q \in Pos :
        /\ p # q
        /\ Cardinality(Running(p)) >= 2
        /\ Running(q) # {}
        /\ \E f, g \in DOMAIN writers : f # g

----------------------------------------------------------------------------
(* Specification of the regrouping step on its own: a trials directory as      *)
(* earlier trials left it, and one call of                                     *)
(* __gen_repeats_files_from_trials_files                                       *)

(* a per-trial file as objective() writes it: n rows, the first `real` of them *)
(* from jobs that succeeded (told apart by their prediction strength), the     *)
(* rest from jobs that raised                                                  *)
TrialRows(k, n, real) ==
    DataFrame([j \in 1..n |-> IF j <= real THEN JobResultRow(k, j, 0) ELSE FailedResult(k)])

FileShapes == {sh \in [n : 0..MaxRepeats, real : 0..MaxRepeats] : sh.real <= sh.n}

InitRegroup ==
    /\ opt \in [seed : {None}, n_repeats : 1..(MaxRepeats + 1), n_trials : {1}, n_proc : {1}]
    /\ input = [n |-> DefaultSplits, w |-> None]
    /\ phase = "regroup"
    /\ runs = 1
    /\ task = [p \in Pos |-> "returned"]
    /\ study = [p \in Pos |-> <<>>]
    /\ \E shape \in [1..MaxFiles -> FileShapes] :
         trialsDir = [f \in {TrialFile(KList[p], 0) : p \in {q \in 1..MaxFiles : shape[q].n > 0}} |->
                        LET p == CHOOSE q \in 1..MaxFiles : TrialFile(KList[q], 0) = f
                        IN  TrialRows(KList[p], shape[p].n, shape[p].real)]
    /\ repeatsDir = NoFiles
    /\ failedDir = {}
    /\ bestScores = None
    /\ reported = None
    /\ faults = 0
    /\ writers = NoFiles
    /\ frame = <<>>
    /\ job = NoJob
    /\ script = NoScript

(* the method: pd.concat raises when the directory holds no csv file *)
GenRepeatsFilesFromTrialsFiles ==
    /\ phase = "regroup"
    /\ IF DOMAIN trialsDir = {}
       THEN /\ phase' = "crashed"
            /\ UNCHANGED <<frame, repeatsDir>>
       ELSE /\ \E order \in ScanOrders(trialsDir) :
                 /\ frame' = ConcatTrials(trialsDir, order)
                 /\ repeatsDir' = GenRepeatsFiles(frame', opt.n_repeats, repeatsDir)
            /\ phase' = "regrouped"
    /\ UNCHANGED <<opt, input, runs, task, study, trialsDir, failedDir, bestScores,
                   reported, faults, writers, job, script>>

NextRegroup == GenRepeatsFilesFromTrialsFiles

SpecRegroup == InitRegroup /\ [][NextRegroup]_vars

(* the cells of a row that hold a value *)
Filled(row) == {c \in DOMAIN row : row[c] # None}

SameCells(a, b) == Filled(a) = Filled(b) /\ \A c \in Filled(a) : a[c] = b[c]

(* C10: regrouping is a pure redistribution: the n_repeats repeat files are    *)
(* written, file r holds, in order, the rows of the concatenated trial rows    *)
(* whose index is r modulo n_repeats, so every row is in one repeat file, and  *)
(* every row of a repeat file has the cells of a persisted row                 *)
C10_RegroupIsRedistribution ==
    phase = "regrouped" =>
        LET n == opt.n_repeats
            N == Len(frame)
            file(r) == repeatsDir[RepeatFile(r)]
        IN  /\ N = SumSeq([p \in 1..MaxFiles |->
                      IF TrialFile(KList[p], 0) \in DOMAIN trialsDir
                      THEN Len(trialsDir[TrialFile(KList[p], 0)]) ELSE 0])
            /\ \A r \in 0..(n - 1) : RepeatFile(r) \in DOMAIN repeatsDir
            /\ \A i \in 0..(N - 1) :
                 /\ (i \div n) + 1 \in DOMAIN file(i % n)
                 /\ file(i % n)[(i \div n) + 1] = frame[i + 1]
            /\ SumSeq([r \in 1..n |-> Len(file(r - 1))]) = N
            /\ \A r \in 0..(n - 1) : \A j \in DOMAIN file(r) :
                 \E f \in DOMAIN trialsDir : \E m \in DOMAIN trialsDir[f] :
                     SameCells(file(r)[j], trialsDir[f][m])

C10_Witness ==
    /\ phase = "regrouped"
    /\ opt.n_repeats >= 2
    /\ Len(frame) > opt.n_repeats
    /\ \E a, b \in 1..Len(frame) : ~SameCells(frame[a], frame[b])

----------------------------------------------------------------------------
(* FullOptimizationJob: run() of one job, fold by fold, fit by fit.  The Model *)
(* keeps its contract here: a fit returns, and cluster() uses at least one and *)
(* at most k labels on the samples it is given                                 *)

Min(a, b) == IF a <= b THEN a ELSE b

(* self.seed = int(str(self.seed) + str(i)) if self.seed else None *)
ConsensusSeed(seed, i) ==
    IF Truthy(seed) THEN Some(IntOf(Str(Get(seed)) \o Str(i))) ELSE None

FoldSizeFloor(n, n_splits, f) == n \div n_splits

(* KFold(n_splits, shuffle=True).split: the shuffled indices cut into n_splits *)
(* consecutive validation folds, the first n % n_splits one longer             *)
FoldSize(n, n_splits, f) == (n \div n_splits) + (IF f <= n % n_splits THEN 1 ELSE 0)

RECURSIVE FoldStart(_, _, _)
FoldStart(n, n_splits, f) ==
    IF f = 1 THEN 1 ELSE FoldStart(n, n_splits, f - 1) + FoldSize(n, n_splits, f - 1)

Shuffles(n) == {s \in [1..n -> 0..(n - 1)] : \A a, b \in 1..n : a # b => s[a] # s[b]}

SplitsOf(shuffled, n_splits) ==
    LET n == Len(shuffled)
    IN  [f \in 1..n_splits |->
            LET val == {shuffled[j] : j \in FoldStart(n, n_splits, f)..
                                            (FoldStart(n, n_splits, f) + FoldSize(n, n_splits, f) - 1)}
            IN  [train |-> (0..(n - 1)) \ val, val |-> val]]

KFoldSplits(n, n_splits) == {SplitsOf(s, n_splits) : s \in Shuffles(n)}

(* whether _cv_fold_step takes _consensus_clustering *)
UsesConsensus(n_consensus) == n_consensus # 0 /\ n_consensus > 1

(* the line that slices the weights: `if self.weights` on an array, then the   *)
(* two index lookups                                                           *)
WeightsRaise(n, w) ==
    /\ w # None
    /\ \/ ArraySize(Get(w)) > 1
       \/ ArraySize(Get(w)) = 1 /\ Get(w) < n

(* run(): KFold(...).split(self.data) and the first step of the loop over it *)
JobSplit ==
    /\ job.pc = "created"
    /\ IF job.n_splits < 2 \/ job.n < job.n_splits
       THEN job' = [job EXCEPT !.pc = "raised"]
       ELSE \E sp \in KFoldSplits(job.n, job.n_splits) :
              job' = [job EXCEPT !.pc = "fold", !.splits = sp, !.fold = 1]
    /\ UNCHANGED <<sweepVars, script>>

(* the loop body up to the call of _cv_fold_step *)
JobFoldBegin ==
    /\ job.pc = "fold"
    /\ job' = IF WeightsRaise(job.n, job.w)
              THEN [job EXCEPT !.pc = "raised"]
              ELSE [job EXCEPT !.pc = "cluster", !.rep = 0, !.ekSum = 0]
    /\ UNCHANGED <<sweepVars, script>>

(* one pass of _consensus_clustering's loop: reseed, _single_clustering *)
JobConsensusRepeat(ek) ==
    /\ job.pc = "cluster"
    /\ UsesConsensus(job.n_consensus)
    /\ job.rep < job.n_consensus
    /\ ek \in 1..Min(job.params.k, Cardinality(job.splits[job.fold].train))
    /\ LET seed == ConsensusSeed(job.seed, job.rep)
       IN  job' = [job EXCEPT
                !.seed = seed,
                !.rep = @ + 1,
                !.ekSum = @ + ek,
                !.fits = Append(@, [fold |-> job.fold, on |-> "train", rep |-> job.rep, seed |-> seed])]
    /\ UNCHANGED <<sweepVars, script>>

(* _single_clustering called directly *)
JobSingleClustering(ek) ==
    /\ job.pc = "cluster"
    /\ ~UsesConsensus(job.n_consensus)
    /\ job.rep = 0
    /\ ek \in 1..Min(job.params.k, Cardinality(job.splits[job.fold].train))
    /\ job' = [job EXCEPT
            !.rep = 1,
            !.ekSum = ek,
            !.fits = Append(@, [fold |-> job.fold, on |-> "train", rep |-> 0, seed |-> job.seed])]
    /\ UNCHANGED <<sweepVars, script>>

ClusteringFitsAsConfigured(n_consensus) == n_consensus

(* the number of fits the clustering of one fold makes *)
ClusteringFits(n_consensus) == IF UsesConsensus(n_consensus) THEN n_consensus ELSE 1

(* the rest of _cv_fold_step: the means, the fit on the validation data, the   *)
(* metrics; then run() appends the fold's result and takes the next fold       *)
JobFoldEnd ==
    /\ job.pc = "cluster"
    /\ job.rep = ClusteringFits(job.n_consensus)
    /\ job' = [job EXCEPT
            !.pc = IF job.fold = job.n_splits THEN "reduce" ELSE "fold",
            !.fold = @ + 1,
            !.fits = Append(@, [fold |-> job.fold, on |-> "val", rep |-> 0, seed |-> job.seed]),
            !.foldResults = Append(@, [effective_k |-> <<job.ekSum, ClusteringFits(job.n_consensus)>>])]
    /\ UNCHANGED <<sweepVars, script>>

(* the mean of a column of equal-denominator means *)
MeanOfMeans(ms) ==
    <<SumSeq([j \in DOMAIN ms |-> ms[j][1]]), SumSeq([j \in DOMAIN ms |-> ms[j][2]])>>

(* the end of run(): the mean over the folds, appended to the params *)
JobReduce ==
    /\ job.pc = "reduce"
    /\ job' = [job EXCEPT
            !.pc = "done",
            !.result = Some([c \in ParamCols \cup MetricCols |->
                IF c \in ParamCols THEN ParamsDict(job.params.k)[c]
                ELSE IF c = "effective_k"
                     THEN Some(MeanOfMeans([j \in DOMAIN job.foldResults |-> job.foldResults[j].effective_k]))
                     ELSE Some(0)])]
    /\ UNCHANGED <<sweepVars, script>>

JobKs == {KList[1], KList[Len(KList)]}

InitJob ==
    /\ opt = [seed |-> None, n_repeats |-> 1, n_trials |-> 1, n_proc |-> 1]
    /\ input = [n |-> 1, w |-> None]
    /\ phase = "idle"
    /\ runs = 0
    /\ task = [p \in Pos |-> "pending"]
    /\ study = [p \in Pos |-> <<>>]
    /\ trialsDir = NoFiles
    /\ repeatsDir = NoFiles
    /\ failedDir = {}
    /\ bestScores = None
    /\ reported = None
    /\ faults = 0
    /\ writers = NoFiles
    /\ frame = <<>>
    /\ script = NoScript
    /\ \E seed \in Seeds, n_consensus \in 0..MaxConsensus, n_splits \in 1..MaxSplits,
          n \in 1..MaxSamples, w \in {None} \cup {Some(m) : m \in 1..MaxSamples}, k \in JobKs :
         job = [pc |-> "created", seed |-> seed, base |-> seed, n_consensus |-> n_consensus,
                n_splits |-> n_splits, n |-> n, w |-> w, params |-> [k |-> k, alpha |-> 1],
                splits |-> <<>>, fold |-> 0, rep |-> 0, ekSum |-> 0,
                fits |-> <<>>, foldResults |-> <<>>, result |-> None]

NextJob ==
    \/ JobSplit
    \/ JobFoldBegin
    \/ \E ek \in 1..KList[Len(KList)] : JobConsensusRepeat(ek)
    \/ \E ek \in 1..KList[Len(KList)] : JobSingleClustering(ek)
    \/ JobFoldEnd
    \/ JobReduce

SpecJob == InitJob /\ [][NextJob]_vars

(* C5: on a Dataset of more than one sample with an all-ones Weight Mask of    *)
(* its shape, run() does not raise and returns a row with train_total_loss,    *)
(* test_total_loss and effective_k, where 1 <= effective_k <= K                *)
C5_RunReturnsRowOnMaskedData ==
    (job.n > 1 /\ job.n >= job.n_splits /\ job.n_splits >= 2 /\ job.w = Some(job.n)) =>
        /\ job.pc # "raised"
        /\ job.pc = "done" =>
             LET row == Get(job.result)
             IN  /\ {"train_total_loss", "test_total_loss", "effective_k"} \subseteq Filled(row)
                 /\ Get(row["effective_k"])[2] <= Get(row["effective_k"])[1]
                 /\ Get(row["effective_k"])[1] <= job.params.k * Get(row["effective_k"])[2]

TrainFits == {j \in DOMAIN job.fits : job.fits[j].on = "train"}

(* C7: with n_consensus > 1 the seed of consensus repeat i depends on the      *)
(* job's base seed and on i alone: it is the same in every fold; with no base  *)
(* seed every repeat is fitted with no seed                                    *)
C7_ConsensusSeedFromBaseAndIndex ==
    UsesConsensus(job.n_consensus) =>
        /\ job.base # None =>
             \A a, b \in TrainFits :
                 job.fits[a].rep = job.fits[b].rep => job.fits[a].seed = job.fits[b].seed
        /\ job.base = None => \A a \in TrainFits : job.fits[a].seed = None

(* C11: the folds of a job partition the sample indices: in every fold train   *)
(* and validation are disjoint and together all indices, every index is in    *)
(* the validation set of exactly one fold, and a job that runs through makes  *)
(* exactly n_splits fold steps, one per fold                                  *)
C11_FoldsPartitionSamples ==
    job.pc \in {"fold", "cluster", "reduce", "done"} =>
        LET all == 0..(job.n - 1)
        IN  /\ Len(job.splits) = job.n_splits
            /\ \A f \in DOMAIN job.splits :
                 /\ job.splits[f].train \cap job.splits[f].val = {}
                 /\ job.splits[f].train \cup job.splits[f].val = all
            /\ \A x \in all :
                 Cardinality({f \in DOMAIN job.splits : x \in job.splits[f].val}) = 1
            /\ job.pc \in {"reduce", "done"} =>
                 /\ Len(job.foldResults) = job.n_splits
                 /\ \A f \in 1..job.n_splits :
                      Cardinality({j \in DOMAIN job.fits :
                                     job.fits[j].on = "val" /\ job.fits[j].fold = f}) = 1

C11_Witness ==
    /\ job.pc = "done"
    /\ job.n % job.n_splits # 0
    /\ Len(job.foldResults) = job.n_splits

----------------------------------------------------------------------------
(* Claims on the end of the sweep *)

(* the failure logs written by the jobs of the current invocation *)
FailedThisRun == {log \in failedDir : log[1][1] = runs}

----------------------------------------------------------------------------
(* Claims on the fits of a job *)

FitsOf(f, on) == {j \in DOMAIN job.fits : job.fits[j].fold = f /\ job.fits[j].on = on}

(* C13: a fold step fits one Model on the training fold when n_consensus <= 1  *)
(* (the job's seed staying as given) and n_consensus Models when it is more,   *)
(* and one more Model on the fold's validation data; a job that runs through   *)
(* has made n_splits * (max(1, n_consensus) + 1) fits; the data, the weights   *)
(* and the hyperparameter configuration of the job never change                *)
C13_FitCountPerFold ==
    /\ [](/\ \A f \in 1..Len(job.foldResults) :
              /\ Cardinality(FitsOf(f, "train")) =
                     (IF job.n_consensus > 1 THEN job.n_consensus ELSE 1)
              /\ Cardinality(FitsOf(f, "val")) = 1
          /\ job.n_consensus <= 1 => job.seed = job.base
          /\ job.pc = "done" =>
                Len(job.fits) = job.n_splits * (Max(1, job.n_consensus) + 1))
    /\ [][/\ job'.params = job.params
          /\ job'.n = job.n
          /\ job'.w = job.w]_vars

C13_Witness ==
    /\ job.pc = "done"
    /\ job.n_consensus > 1
    /\ Len(job.fits) = job.n_splits * (job.n_consensus + 1)

----------------------------------------------------------------------------
(* Specification of one long study: the first task of a sweep with a base seed *)
(* and so many trials and repeats that their numbers take two digits; no job   *)
(* fails                                                                       *)

InitSeeds ==
    /\ opt \in [seed : {Some(1), Some(2)}, n_repeats : {SeedRepeats - 1, SeedRepeats},
                 n_trials : {SeedTrials}, n_proc : {1}]
    /\ input = [n |-> DefaultSplits, w |-> None]
    /\ phase = "running"
    /\ runs = 1
    /\ task = [p \in Pos |-> IF p = 1 THEN "running" ELSE "pending"]
    /\ study = [p \in Pos |-> <<>>]
    /\ trialsDir = NoFiles
    /\ repeatsDir = NoFiles
    /\ failedDir = {}
    /\ bestScores = None
    /\ reported = None
    /\ faults = 0
    /\ writers = NoFiles
    /\ frame = <<>>
    /\ job = NoJob
    /\ script = NoScript

NextSeeds ==
    \/ TrialStart(1)
    \/ \E number \in 0..(SeedTrials - 1) :
         \E o \in Outcomes({0}) : RunCvSingleJob(1, number, o, 0)
    \/ \E number \in 0..(SeedTrials - 1) : TrialFinish(1, number)
    \/ TaskFinish(1)

SpecSeeds == InitSeeds /\ [][NextSeeds]_vars

(* the jobs a study has created so far, as (trial number, repeat index) *)
JobsOf(p) == {a \in (DOMAIN study[p]) \X (1..Max(opt.n_repeats, 1)) :
                a[2] \in DOMAIN study[p][a[1]].jobs}

(* C14: with a base seed, two jobs of a sweep that differ in candidate K,      *)
(* trial number or repeat index get different seeds                            *)
C14_JobSeedsInjective ==
    opt.seed # None =>
        \A p, q \in Pos : \A a \in JobsOf(p), b \in JobsOf(q) :
            <<p, a>> # <<q, b>> =>
                study[p][a[1]].jobs[a[2]].seed # study[q][b[1]].jobs[b[2]].seed

----------------------------------------------------------------------------
(* Claims on the repeat files against the repeats the rows came from *)

----------------------------------------------------------------------------
(* tools/run_vader.py: the script from its argument checks to its report.  The *)
(* readers and the Model are collaborators: a reader returns a tensor, a fit   *)
(* returns, cluster() uses between one and k labels                            *)

DataTypes == {"ADNI", "NACC", "PPMI", "ADNI_RAW", "NACC_RAW", "custom"}

(* the data types that have a reader *)
Supported == {"ADNI", "NACC", "ADNI_RAW", "NACC_RAW"}

(* round(float(x)) of Python for x = sum / n: halves go to the even neighbour *)
Round(sum, n) ==
    LET q == sum \div n
        r == sum % n
    IN  IF 2 * r < n THEN q
        ELSE IF 2 * r > n THEN q + 1
        ELSE IF q % 2 = 0 THEN q ELSE q + 1

(* the checks of the arguments and the dispatch on --input_data_type *)
ScriptLoad ==
    /\ script.pc = "start"
    /\ script' = IF script.type = "PPMI" THEN [script EXCEPT !.pc = "exited", !.code = 3]
                 ELSE IF script.type = "custom" THEN [script EXCEPT !.pc = "raised"]
                 ELSE [script EXCEPT !.pc = "loaded"]
    /\ UNCHANGED <<sweepVars, job>>

(* one pass of the loop of the consensus branch: the seed string, which reads  *)
(* a name `i` the script never binds, then the fit with seed=args.seed and the *)
(* repeat's lines appended to the report file                                  *)
ScriptConsensusRepeat(ek) ==
    /\ script.pc \in {"loaded", "consensus"}
    /\ UsesConsensus(script.n_consensus)
    /\ script.j < script.n_consensus
    /\ ek \in 1..script.k
    /\ script' = IF Truthy(script.seed)
                 THEN [script EXCEPT !.pc = "raised"]
                 ELSE [script EXCEPT
                         !.pc = "consensus",
                         !.j = @ + 1,
                         !.fits = Append(@, script.seed),
                         !.ekSum = @ + ek,
                         !.report = Append(@, [kind |-> "repeat", clusters |-> ek])]
    /\ UNCHANGED <<sweepVars, job>>

(* after the loop: the rounded mean effective k and the consensus clustering *)
ScriptConsensusEnd ==
    /\ script.pc = "consensus"
    /\ script.j = script.n_consensus
    /\ script' = [script EXCEPT !.pc = "fitted",
                                !.clusters = Round(script.ekSum, script.n_consensus)]
    /\ UNCHANGED <<sweepVars, job>>

(* the single-run branch: the same seed string, one fit *)
ScriptSingleRun(ek) ==
    /\ script.pc = "loaded"
    /\ ~UsesConsensus(script.n_consensus)
    /\ ek \in 1..script.k
    /\ script' = IF Truthy(script.seed)
                 THEN [script EXCEPT !.pc = "raised"]
                 ELSE [script EXCEPT !.pc = "fitted",
                                     !.fits = Append(@, script.seed),
                                     !.clusters = ek]
    /\ UNCHANGED <<sweepVars, job>>

(* the total loss and the final lines appended to the report file *)
ScriptReport ==
    /\ script.pc = "fitted"
    /\ script' = [script EXCEPT
            !.pc = "done",
            !.report = Append(@, [kind |-> "final", clusters |-> script.clusters])]
    /\ UNCHANGED <<sweepVars, job>>

ScriptKs == 2..MaxScriptK

InitScript ==
    /\ opt = [seed |-> None, n_repeats |-> 1, n_trials |-> 1, n_proc |-> 1]
    /\ input = [n |-> 1, w |-> None]
    /\ phase = "idle"
    /\ runs = 0
    /\ task = [p \in Pos |-> "pending"]
    /\ study = [p \in Pos |-> <<>>]
    /\ trialsDir = NoFiles
    /\ repeatsDir = NoFiles
    /\ failedDir = {}
    /\ bestScores = None
    /\ reported = None
    /\ faults = 0
    /\ writers = NoFiles
    /\ frame = <<>>
    /\ job = NoJob
    /\ \E type \in DataTypes, seed \in Seeds \cup {Some(2)}, n_consensus \in 0..MaxConsensus,
          k \in ScriptKs, old \in {<<>>, <<[kind |-> "final", clusters |-> 1]>>} :
         script = [pc |-> "start", type |-> type, seed |-> seed, n_consensus |-> n_consensus,
                   k |-> k, j |-> 0, fits |-> <<>>, ekSum |-> 0, clusters |-> 0,
                   report |-> old, code |-> 0]

NextScript ==
    \/ ScriptLoad
    \/ \E ek \in 1..MaxScriptK : ScriptConsensusRepeat(ek)
    \/ ScriptConsensusEnd
    \/ \E ek \in 1..MaxScriptK : ScriptSingleRun(ek)
    \/ ScriptReport

SpecScript == InitScript /\ [][NextScript]_vars

(* C16: with an existing input file and a supported data type the script runs  *)
(* to its end, whatever --seed and --n_consensus, and then the report file     *)
(* ends with the final clustering and its losses; with --seed given and        *)
(* n_consensus > 1 the consensus repeats are fitted with seeds that are set    *)
(* and differ from one another                                                 *)
C16_ScriptRunsAndReports ==
    script.type \in Supported =>
        /\ script.pc \notin {"raised", "exited"}
        /\ script.pc = "done" =>
             /\ script.report # <<>>
             /\ script.report[Len(script.report)].kind = "final"
        /\ (script.seed # None /\ script.n_consensus > 1) =>
             \A a, b \in DOMAIN script.fits :
                 /\ script.fits[a] # None
                 /\ a # b => script.fits[a] # script.fits[b]

====
